---------------------------- MODULE Spec2Model ----------------------------
(***************************************************************************)
(* Model of mutual_info.py: the k-nearest-neighbour (KSG) estimators       *)
(* compute_mi and compute_cmi and the helpers they are built from.         *)
(*                                                                         *)
(* Numbers.  A float64 coordinate is modelled by an integer that counts    *)
(* steps of the float64 grid, in units of the smallest positive double     *)
(* (2^-1074).  On that part of the grid subtraction and comparison are     *)
(* exact, np.nextafter(d, 0) is d - 1 for d > 0 and 0 for d = 0, and 1 is  *)
(* the smallest positive distance.  The digamma function at a positive     *)
(* integer m is H(m-1) - gamma; in both estimators the gamma terms cancel, *)
(* so an estimate is an exact rational, carried here multiplied by         *)
(* n_samples * Lcm (an integer).  Rounding of the float64 sums is not      *)
(* modelled.                                                               *)
(***************************************************************************)
EXTENDS Integers, Sequences, FiniteSets, TLC

\* Largest number of samples of a block.
MaxN == 3
\* Largest coordinate value of the input data (in grid steps).
MaxVal == 2

--------------------------------------------------------------------------
(* numpy helpers *)

Abs(a) == IF a < 0 THEN -a ELSE a

SetMax(S) == CHOOSE m \in S : \A e \in S : e <= m

RECURSIVE SeqSum(_)
SeqSum(s) == IF s = << >> THEN 0 ELSE Head(s) + SeqSum(Tail(s))

\* The value python's None is modelled by.
None == "<None>"

\* Python truthiness of a noise_type argument (None and '' are falsy).
Truthy(t) == t \notin {None, ""}

\* An ndarray: its shape and its data in row-major order.
NdArray(shape, data) == [shape |-> shape, data |-> data]

Ndim(a) == Len(a.shape)

\* x.reshape(-1, 1) of a rank-1 array: a matrix, as the sequence of its rows.
Reshape(a) == [i \in 1..Len(a.data) |-> << a.data[i] >>]

\* np.hstack of matrices with the same number of rows.
RECURSIVE Hstack(_)
Hstack(ms) ==
    IF Len(ms) = 1 THEN ms[1]
    ELSE LET rest == Hstack(Tail(ms))
         IN  [i \in 1..Len(ms[1]) |-> ms[1][i] \o rest[i]]

\* np.hstack raises ValueError unless the blocks have equal row counts.
HstackOk(ms) == \A i \in 1..Len(ms) : Len(ms[i]) = Len(ms[1])

\* np.nextafter(d, 0): the next representable value from d toward 0.
NextAfterZeroIdentity(d) == d
NextAfterZero(d) == IF d > 0 THEN d - 1 ELSE IF d < 0 THEN d + 1 ELSE 0

--------------------------------------------------------------------------
(* sklearn.neighbors.KDTree(x, metric="chebyshev") *)

\* The Chebyshev distance of two rows.
Chebyshev(p, q) == SetMax({Abs(p[j] - q[j]) : j \in 1..Len(p)})

\* The distances from point i to every point of the tree, itself included.
DistRow(m, i) == [j \in 1..Len(m) |-> Chebyshev(m[i], m[j])]

\* The c-th smallest entry of ds (1 <= c <= Len(ds)), ties counted.
KthSmallest(ds, c) ==
    CHOOSE v \in {ds[j] : j \in 1..Len(ds)} :
        /\ Cardinality({j \in 1..Len(ds) : ds[j] < v}) < c
        /\ Cardinality({j \in 1..Len(ds) : ds[j] <= v}) >= c

\* kd.query(x, k=c)[0][:, -1]: per point, the distance to the c-th nearest
\* point of the tree, the point itself being the first.
QueryLastDist(m, c) == [i \in 1..Len(m) |-> KthSmallest(DistRow(m, i), c)]

\* kd.query raises ValueError when c exceeds the number of points.
QueryOk(m, c) == c <= Len(m)

\* kd.query_radius(x, radius, count_only=True): per point, the number of
\* points of the tree, itself included, at distance <= its radius.
QueryRadiusCount(m, radius) ==
    [i \in 1..Len(m) |->
        Cardinality({j \in 1..Len(m) : Chebyshev(m[i], m[j]) <= radius[i]})]

--------------------------------------------------------------------------
(* The helper functions of mutual_info.py *)

\* get_radius_kneighbors: the distance to the n_neighbors-th neighbour
\* (the query's column n_neighbors+1, the point itself being column 1),
\* moved one representable value toward 0.
get_radius_kneighbors(m, nn) ==
    LET neigh_dist == QueryLastDist(m, nn + 1)
    IN  [i \in 1..Len(m) |-> NextAfterZero(neigh_dist[i])]

\* num_points_within_radius: the radius count with the point itself
\* taken out.
num_points_within_radius(m, radius) ==
    LET cnt == QueryRadiusCount(m, radius)
    IN  [i \in 1..Len(m) |-> cnt[i] - 1]

\* ensure_2d raises ValueError unless this holds.
ensure_2d_ok(a) == Ndim(a) = 1

\* ensure_2d of an array it accepts.
ensure_2d(a) == Reshape(a)

\* The noise kinds add_noise accepts; any other raises ValueError.
add_noise_ok(t) == t \in {"uniform", "normal"}

\* add_noise: every entry moved by its own draw (draws has x's shape).
add_noise(m, draws) ==
    [i \in 1..Len(m) |-> [j \in 1..Len(m[i]) |-> m[i][j] + draws[i][j]]]

\* Lines 102-106 / 140-145: where radius is 0, k becomes the number of
\* equal rows among the rows of radius 0 (np.unique on xy[mask]), minus 1.
tie_break_no_minus(m, radius, k) ==
    [i \in 1..Len(m) |->
        IF radius[i] = 0
        THEN Cardinality({j \in 1..Len(m) : radius[j] = 0 /\ m[j] = m[i]})
        ELSE k[i]]
tie_break(m, radius, k) ==
    [i \in 1..Len(m) |->
        IF radius[i] = 0
        THEN Cardinality({j \in 1..Len(m) : radius[j] = 0 /\ m[j] = m[i]}) - 1
        ELSE k[i]]

--------------------------------------------------------------------------
(* scipy.special.digamma and the estimates *)

RECURSIVE Gcd(_, _)
Gcd(a, b) == IF b = 0 THEN a ELSE Gcd(b, a % b)

RECURSIVE LcmUpTo(_)
LcmUpTo(n) == IF n <= 1 THEN 1
              ELSE LET l == LcmUpTo(n - 1) IN (l * n) \div Gcd(l, n)

\* The common denominator of the harmonic numbers H(0) .. H(MaxN).
Lcm == LcmUpTo(MaxN + 1)

\* Lcm * (digamma(m) + gamma) = Lcm * H(m-1), for an integer m >= 1.
RECURSIVE DigammaL(_)
DigammaL(m) == IF m <= 1 THEN 0 ELSE DigammaL(m - 1) + Lcm \div (m - 1)

\* digamma has poles at 0, -1, -2, ...
Pole(m) == m <= 0

\* What digamma returns at a pole: -inf in current scipy, nan or +inf in
\* older ones.
PoleValues == {"-inf", "nan", "+inf"}

\* sum_i Lcm * (digamma(v[i] + shift) + gamma)
SumDigammaL(v, shift) == SeqSum([i \in 1..Len(v) |-> DigammaL(v[i] + shift)])

\* A finite estimate, times n_samples * Lcm, or +inf.
Value(num) == [inf |-> FALSE, num |-> num]
Infinity == [inf |-> TRUE, num |-> 0]

\* python's max(0, v) for a finite v, and for v one of -inf, nan, +inf:
\* v when v > 0 holds, else 0.
Max0(num) == IF num > 0 THEN Value(num) ELSE Value(0)
Max0Pole(p) == IF p = "+inf" THEN Infinity ELSE Value(0)

\* Line 111-112: digamma(n) + mean(digamma(k)) - mean(digamma(nx + 1))
\* - mean(digamma(ny + 1)), times n * Lcm.
mi_raw(n, kk, cx, cy) ==
    n * DigammaL(n) + SumDigammaL(kk, 0)
      - SumDigammaL(cx, 1) - SumDigammaL(cy, 1)

\* Line 151-152: mean(digamma(k)) - mean(digamma(nxz + 1))
\* - mean(digamma(nyz + 1)) + mean(digamma(nz + 1)), times n * Lcm.
cmi_raw(kk, cxz, cyz, cz) ==
    SumDigammaL(kk, 0) - SumDigammaL(cxz, 1)
      - SumDigammaL(cyz, 1) + SumDigammaL(cz, 1)

\* Whether some digamma(k[i]) is evaluated at a pole.
KPole(kk) == \E i \in 1..Len(kk) : Pole(kk[i])

--------------------------------------------------------------------------
(* The state of one call of compute_mi or compute_cmi *)

VARIABLES
    fn,           \* "mi" or "cmi": the function called
    x, y, z,      \* the arguments (z is NoArg in a call of compute_mi)
    n_neighbors,  \* the argument n_neighbors
    noise_type,   \* the argument noise_type
    pc,           \* the statement the call is at
    n_samples,    \* len(x)
    x2, y2, z2,   \* the blocks after ensure_2d (and add_noise)
    joint,        \* xy or xyz
    k,            \* the per-sample neighbour counts
    radius,       \* the per-sample radii
    nx, ny, nz,   \* the marginal counts (nxz, nyz, nz in compute_cmi)
    result,       \* the returned estimate
    err,          \* the exception raised, or None
    kdtrees       \* the number of KDTree objects constructed so far

vars == << fn, x, y, z, n_neighbors, noise_type, pc, n_samples, x2, y2, z2,
           joint, k, radius, nx, ny, nz, result, err, kdtrees >>

args == << fn, x, y, z, n_neighbors, noise_type >>

\* The coordinate values of the input data: 0, the smallest positive
\* value, and a larger one.
Vals == {0, 1, MaxVal}

\* A rank-1 array.
Arr1(v) == NdArray(<< Len(v) >>, v)

\* The rank-1 arrays of n samples over the values V.
Vec(n, V) == {Arr1(v) : v \in [1..n -> V]}

\* The z of a call of compute_mi.
NoArg == NdArray(<< 0 >>, << >>)

\* A few arrays of two samples, of ranks 1, 0, 2 and 3, and one of three.
Pair == {Arr1(<< 0, 0 >>), Arr1(<< 0, MaxVal >>)}
OtherRank == { NdArray(<< >>, << 0 >>),
               NdArray(<< 2, 1 >>, << MaxVal, MaxVal >>),
               NdArray(<< 2, 2 >>, << 0, 0, MaxVal, 1 >>),
               NdArray(<< 2, 1, 1 >>, << 0, MaxVal >>) }
Triple == {Arr1(<< 0, 0, MaxVal >>)}

NoiseTypes == {None, "uniform", "normal", "", "gaussian"}

\* The arguments of the call.
Call(f, a, b, c, nn, t) ==
    /\ fn = f
    /\ x = a
    /\ y = b
    /\ z = c
    /\ n_neighbors = nn
    /\ noise_type = t

\* Calls without noise on all data of up to MaxN samples (the z of a call
\* of compute_cmi over two values).
DataCalls ==
    \E n \in 1..MaxN : \E nn \in 1..n :
        \E a \in Vec(n, Vals), b \in Vec(n, Vals) :
            \/ Call("mi", a, b, NoArg, nn, None)
            \/ \E c \in Vec(n, {0, MaxVal}) : Call("cmi", a, b, c, nn, None)

\* Calls with every kind of noise_type, on two samples.
NoiseCalls ==
    \E a \in Pair, b \in Pair, nn \in 1..2, t \in NoiseTypes :
        \/ Call("mi", a, b, NoArg, nn, t)
        \/ \E c \in Pair : Call("cmi", a, b, c, nn, t)

\* Calls with arrays of other ranks or of differing sample counts.
ShapeCalls ==
    \E nn \in 1..2, t \in {None, "gaussian"} :
        \/ \E a, b \in Pair \cup OtherRank \cup Triple :
              Call("mi", a, b, NoArg, nn, t)
        \/ \E a, b, c \in {Arr1(<< 0, MaxVal >>)} \cup OtherRank \cup Triple :
              Call("cmi", a, b, c, nn, t)

\* The draws of the generator for one entry: negative, zero or positive
\* (rng.random() - 0.5, rng.normal()), scaled to one grid step.
NoiseDraws == {-1, 0, 1}

\* The draws for a block: one per entry (rng.random(x.shape)).
BlockDraws(m) == [1..Len(m) -> [1..Len(m[1]) -> NoiseDraws]]

\* The result of a call that has not returned.
NoResult == [inf |-> FALSE, num |-> -1]

Init ==
    /\ DataCalls \/ NoiseCalls \/ ShapeCalls
    /\ pc = "ensure_2d"
    /\ n_samples = 0
    /\ x2 = << >>
    /\ y2 = << >>
    /\ z2 = << >>
    /\ joint = << >>
    /\ k = << >>
    /\ radius = << >>
    /\ nx = << >>
    /\ ny = << >>
    /\ nz = << >>
    /\ result = NoResult
    /\ err = None
    /\ kdtrees = 0

\* The call ends with an exception.
Raise(e) ==
    /\ pc' = "raised"
    /\ err' = e

--------------------------------------------------------------------------
(* compute_mi *)

\* Lines 89-90: n_samples = len(x); x, y = [ensure_2d(t) for t in [x, y]]
MI_Ensure2d ==
    /\ pc = "ensure_2d"
    /\ fn = "mi"
    /\ IF Ndim(x) = 0
       THEN /\ Raise("TypeError")
            /\ UNCHANGED << n_samples, x2, y2 >>
       ELSE /\ n_samples' = x.shape[1]
            /\ IF ensure_2d_ok(x) /\ ensure_2d_ok(y)
               THEN /\ x2' = ensure_2d(x)
                    /\ y2' = ensure_2d(y)
                    /\ pc' = "add_noise"
                    /\ err' = err
               ELSE /\ Raise("InvalidShape")
                    /\ UNCHANGED << x2, y2 >>
    /\ UNCHANGED << args, z2, joint, k, radius, nx, ny, nz, result, kdtrees >>

\* Lines 92-94: if noise_type: x, y = [add_noise(t, rng, noise_type) ...]
MI_AddNoise ==
    /\ pc = "add_noise"
    /\ fn = "mi"
    /\ IF Truthy(noise_type)
       THEN IF add_noise_ok(noise_type)
            THEN /\ \E dx \in BlockDraws(x2), dy \in BlockDraws(y2) :
                       /\ x2' = add_noise(x2, dx)
                       /\ y2' = add_noise(y2, dy)
                 /\ pc' = "radius"
                 /\ err' = err
            ELSE /\ Raise("InvalidNoise")
                 /\ UNCHANGED << x2, y2 >>
       ELSE /\ pc' = "radius"
            /\ UNCHANGED << x2, y2, err >>
    /\ UNCHANGED << args, n_samples, z2, joint, k, radius, nx, ny, nz,
                    result, kdtrees >>

\* Lines 96-98: xy = np.hstack((x, y)); k = np.full(n_samples, n_neighbors);
\* radius = get_radius_kneighbors(xy, n_neighbors), which constructs a
\* KDTree and then queries it.
MI_Radius ==
    /\ pc = "radius"
    /\ fn = "mi"
    /\ IF ~HstackOk(<< x2, y2 >>)
       THEN /\ Raise("DimensionMismatch")
            /\ UNCHANGED << joint, k, radius, kdtrees >>
       ELSE /\ joint' = Hstack(<< x2, y2 >>)
            /\ k' = [i \in 1..n_samples |-> n_neighbors]
            /\ kdtrees' = kdtrees + 1
            /\ IF QueryOk(joint', n_neighbors + 1)
               THEN /\ radius' = get_radius_kneighbors(joint', n_neighbors)
                    /\ pc' = "tie_break"
                    /\ err' = err
               ELSE /\ Raise("InsufficientSamples")
                    /\ UNCHANGED radius
    /\ UNCHANGED << args, n_samples, x2, y2, z2, nx, ny, nz, result >>

\* Lines 100-106: if noise_type is None: ... k[mask] = counts[ix] - 1
MI_TieBreak ==
    /\ pc = "tie_break"
    /\ fn = "mi"
    /\ k' = IF noise_type = None THEN tie_break(joint, radius, k) ELSE k
    /\ pc' = "counts"
    /\ UNCHANGED << args, n_samples, x2, y2, z2, joint, radius, nx, ny, nz,
                    result, err, kdtrees >>

\* Lines 108-109: nx, ny = num_points_within_radius(x / y, radius)
MI_Counts ==
    /\ pc = "counts"
    /\ fn = "mi"
    /\ nx' = num_points_within_radius(x2, radius)
    /\ ny' = num_points_within_radius(y2, radius)
    /\ kdtrees' = kdtrees + 2
    /\ pc' = "estimate"
    /\ UNCHANGED << args, n_samples, x2, y2, z2, joint, k, radius, nz,
                    result, err >>

\* Lines 111-113: mi = max(0, digamma(n_samples) + ...); return mi
MI_Estimate ==
    /\ pc = "estimate"
    /\ fn = "mi"
    /\ IF KPole(k)
       THEN \E p \in PoleValues : result' = Max0Pole(p)
       ELSE result' = Max0(mi_raw(n_samples, k, nx, ny))
    /\ pc' = "returned"
    /\ UNCHANGED << args, n_samples, x2, y2, z2, joint, k, radius, nx, ny,
                    nz, err, kdtrees >>

--------------------------------------------------------------------------
(* compute_cmi *)

\* Lines 127-128: n_samples = len(x); x, y, z = [ensure_2d(t) ...]
CMI_Ensure2d ==
    /\ pc = "ensure_2d"
    /\ fn = "cmi"
    /\ IF Ndim(x) = 0
       THEN /\ Raise("TypeError")
            /\ UNCHANGED << n_samples, x2, y2, z2 >>
       ELSE /\ n_samples' = x.shape[1]
            /\ IF ensure_2d_ok(x) /\ ensure_2d_ok(y) /\ ensure_2d_ok(z)
               THEN /\ x2' = ensure_2d(x)
                    /\ y2' = ensure_2d(y)
                    /\ z2' = ensure_2d(z)
                    /\ pc' = "add_noise"
                    /\ err' = err
               ELSE /\ Raise("InvalidShape")
                    /\ UNCHANGED << x2, y2, z2 >>
    /\ UNCHANGED << args, joint, k, radius, nx, ny, nz, result, kdtrees >>

\* Lines 130-132: if noise_type: x, y, z = [add_noise(t, rng, noise_type) ...]
CMI_AddNoise ==
    /\ pc = "add_noise"
    /\ fn = "cmi"
    /\ IF Truthy(noise_type)
       THEN IF add_noise_ok(noise_type)
            THEN /\ \E dx \in BlockDraws(x2), dy \in BlockDraws(y2),
                       dz \in BlockDraws(z2) :
                       /\ x2' = add_noise(x2, dx)
                       /\ y2' = add_noise(y2, dy)
                       /\ z2' = add_noise(z2, dz)
                 /\ pc' = "radius"
                 /\ err' = err
            ELSE /\ Raise("InvalidNoise")
                 /\ UNCHANGED << x2, y2, z2 >>
       ELSE /\ pc' = "radius"
            /\ UNCHANGED << x2, y2, z2, err >>
    /\ UNCHANGED << args, n_samples, joint, k, radius, nx, ny, nz, result,
                    kdtrees >>

\* Lines 134-136: xyz = np.hstack((x, y, z)); k = np.full(...);
\* radius = get_radius_kneighbors(xyz, n_neighbors)
CMI_Radius ==
    /\ pc = "radius"
    /\ fn = "cmi"
    /\ IF ~HstackOk(<< x2, y2, z2 >>)
       THEN /\ Raise("DimensionMismatch")
            /\ UNCHANGED << joint, k, radius, kdtrees >>
       ELSE /\ joint' = Hstack(<< x2, y2, z2 >>)
            /\ k' = [i \in 1..n_samples |-> n_neighbors]
            /\ kdtrees' = kdtrees + 1
            /\ IF QueryOk(joint', n_neighbors + 1)
               THEN /\ radius' = get_radius_kneighbors(joint', n_neighbors)
                    /\ pc' = "tie_break"
                    /\ err' = err
               ELSE /\ Raise("InsufficientSamples")
                    /\ UNCHANGED radius
    /\ UNCHANGED << args, n_samples, x2, y2, z2, nx, ny, nz, result >>

\* Lines 138-145: if noise_type is None: ... k[mask] = counts[ix] - 1
CMI_TieBreak ==
    /\ pc = "tie_break"
    /\ fn = "cmi"
    /\ k' = IF noise_type = None THEN tie_break(joint, radius, k) ELSE k
    /\ pc' = "counts"
    /\ UNCHANGED << args, n_samples, x2, y2, z2, joint, radius, nx, ny, nz,
                    result, err, kdtrees >>

\* Lines 147-149: nxz, nyz, nz = num_points_within_radius(..., radius) on
\* np.hstack((x, z)), np.hstack((y, z)) and z
CMI_Counts ==
    /\ pc = "counts"
    /\ fn = "cmi"
    /\ nx' = num_points_within_radius(Hstack(<< x2, z2 >>), radius)
    /\ ny' = num_points_within_radius(Hstack(<< y2, z2 >>), radius)
    /\ nz' = num_points_within_radius(z2, radius)
    /\ kdtrees' = kdtrees + 3
    /\ pc' = "estimate"
    /\ UNCHANGED << args, n_samples, x2, y2, z2, joint, k, radius, result,
                    err >>

\* Lines 151-153: cmi = max(0, np.mean(digamma(k)) - ...); return cmi
CMI_Estimate ==
    /\ pc = "estimate"
    /\ fn = "cmi"
    /\ IF KPole(k)
       THEN \E p \in PoleValues : result' = Max0Pole(p)
       ELSE result' = Max0(cmi_raw(k, nx, ny, nz))
    /\ pc' = "returned"
    /\ UNCHANGED << args, n_samples, x2, y2, z2, joint, k, radius, nx, ny,
                    nz, err, kdtrees >>

Next ==
    \/ MI_Ensure2d
    \/ MI_AddNoise
    \/ MI_Radius
    \/ MI_TieBreak
    \/ MI_Counts
    \/ MI_Estimate
    \/ CMI_Ensure2d
    \/ CMI_AddNoise
    \/ CMI_Radius
    \/ CMI_TieBreak
    \/ CMI_Counts
    \/ CMI_Estimate

Spec == Init /\ [][Next]_vars

--------------------------------------------------------------------------
(* get_radius_kneighbors and num_points_within_radius on one point set *)

\* The point sets: n points of one or two coordinates.
PointSets(n) == UNION {[1..n -> [1..d -> Vals]] : d \in {1, 2}}

InitKnn ==
    /\ \E n \in 2..MaxN : \E m \in PointSets(n) : \E nn \in 1..(n - 1) :
          /\ joint = m
          /\ n_neighbors = nn
          /\ n_samples = n
    /\ fn = "knn"
    /\ x = NoArg
    /\ y = NoArg
    /\ z = NoArg
    /\ noise_type = None
    /\ pc = "knn_radius"
    /\ x2 = << >>
    /\ y2 = << >>
    /\ z2 = << >>
    /\ k = << >>
    /\ radius = << >>
    /\ nx = << >>
    /\ ny = << >>
    /\ nz = << >>
    /\ result = NoResult
    /\ err = None
    /\ kdtrees = 0

\* radius = get_radius_kneighbors(x, n_neighbors)
Knn_Radius ==
    /\ pc = "knn_radius"
    /\ radius' = get_radius_kneighbors(joint, n_neighbors)
    /\ kdtrees' = kdtrees + 1
    /\ pc' = "knn_count"
    /\ UNCHANGED << args, n_samples, x2, y2, z2, joint, k, nx, ny, nz,
                    result, err >>

\* num_points_within_radius(x, radius) on the same x
Knn_Count ==
    /\ pc = "knn_count"
    /\ nx' = num_points_within_radius(joint, radius)
    /\ kdtrees' = kdtrees + 1
    /\ pc' = "knn_done"
    /\ UNCHANGED << args, n_samples, x2, y2, z2, joint, k, radius, ny, nz,
                    result, err >>

NextKnn ==
    \/ Knn_Radius
    \/ Knn_Count

SpecKnn == InitKnn /\ [][NextKnn]_vars

--------------------------------------------------------------------------
(* compute_mi as a function, for comparing it with compute_cmi *)

\* What compute_mi(a, b, n_neighbors=nn, noise_type=None) can end with:
\* the exception raised (or None) and the estimate returned.
compute_mi_outcomes(a, b, nn) ==
    IF Ndim(a) = 0 THEN {[err |-> "TypeError", result |-> NoResult]}
    ELSE IF ~(ensure_2d_ok(a) /\ ensure_2d_ok(b))
    THEN {[err |-> "InvalidShape", result |-> NoResult]}
    ELSE IF ~HstackOk(<< ensure_2d(a), ensure_2d(b) >>)
    THEN {[err |-> "DimensionMismatch", result |-> NoResult]}
    ELSE
    LET n  == a.shape[1]
        xy == Hstack(<< ensure_2d(a), ensure_2d(b) >>)
    IN  IF ~QueryOk(xy, nn + 1)
        THEN {[err |-> "InsufficientSamples", result |-> NoResult]}
        ELSE
        LET r  == get_radius_kneighbors(xy, nn)
            kk == tie_break(xy, r, [i \in 1..n |-> nn])
            cx == num_points_within_radius(ensure_2d(a), r)
            cy == num_points_within_radius(ensure_2d(b), r)
        IN  IF KPole(kk)
            THEN {[err |-> None, result |-> Max0Pole(p)] : p \in PoleValues}
            ELSE {[err |-> None, result |-> Max0(mi_raw(n, kk, cx, cy))]}

--------------------------------------------------------------------------
(* The vocabulary of the properties *)

\* The blocks of the call.
Blocks == IF fn = "cmi" THEN << x, y, z >> ELSE << x, y >>

\* The matrix (n_samples x n_features) a rank-1 or rank-2 array stands for.
Rows(a) ==
    IF Ndim(a) = 1
    THEN [i \in 1..a.shape[1] |-> << a.data[i] >>]
    ELSE [i \in 1..a.shape[1] |->
            [j \in 1..a.shape[2] |-> a.data[(i - 1) * a.shape[2] + j]]]

RanksOk == \A b \in 1..Len(Blocks) : Ndim(Blocks[b]) \in {1, 2}

Rank1Input == \A b \in 1..Len(Blocks) : Ndim(Blocks[b]) = 1

SameCounts ==
    \A b \in 1..Len(Blocks) : Blocks[b].shape[1] = Blocks[1].shape[1]

NoiseOk == noise_type \in {None, "uniform", "normal"}

\* A valid input: blocks of rank 1 or 2 with equal sample count n,
\* 1 <= n_neighbors < n, noise kind unset, uniform or normal.
ValidInput ==
    /\ RanksOk
    /\ SameCounts
    /\ 1 <= n_neighbors
    /\ n_neighbors < Blocks[1].shape[1]
    /\ NoiseOk

Finished == pc \in {"returned", "raised"}

Others(m, i) == (1..Len(m)) \ {i}

\* The distance from point i to its c-th nearest other point.
KthNeighbourDist(m, i, c) ==
    CHOOSE d \in {Chebyshev(m[i], m[j]) : j \in Others(m, i)} :
        /\ Cardinality({j \in Others(m, i) : Chebyshev(m[i], m[j]) < d}) < c
        /\ Cardinality({j \in Others(m, i) : Chebyshev(m[i], m[j]) <= d}) >= c

\* The largest representable value below d, and 0 for d = 0.
Below(d) == IF d = 0 THEN 0 ELSE d - 1

\* The number of other points within distance r of point i.
Within(m, i, r) ==
    Cardinality({j \in Others(m, i) : Chebyshev(m[i], m[j]) <= r})

\* The number of other points strictly closer to point i than d.
Closer(m, i, d) ==
    Cardinality({j \in Others(m, i) : Chebyshev(m[i], m[j]) < d})

\* The number of points of the whole set equal to point i, itself included.
Multiplicity(m, i) == Cardinality({j \in 1..Len(m) : m[j] = m[i]})

\* radius_i and k_i of a joint space m, noise unset.
RadiusOf(m, i) == Below(KthNeighbourDist(m, i, n_neighbors))
EffectiveK(m, i) ==
    IF RadiusOf(m, i) = 0 THEN Multiplicity(m, i) - 1 ELSE n_neighbors

\* n * Lcm * (psi(n) + mean psi(k_i) - mean psi(nx_i + 1) - mean psi(ny_i + 1))
\* for blocks X, Y (the gamma terms cancel).
MIFormula(X, Y) ==
    LET n  == Len(X)
        XY == Hstack(<< X, Y >>)
        Kf == [i \in 1..n |-> DigammaL(EffectiveK(XY, i))]
        Xf == [i \in 1..n |-> DigammaL(Within(X, i, RadiusOf(XY, i)) + 1)]
        Yf == [i \in 1..n |-> DigammaL(Within(Y, i, RadiusOf(XY, i)) + 1)]
    IN  n * DigammaL(n) + SeqSum(Kf) - SeqSum(Xf) - SeqSum(Yf)

\* n * Lcm * (mean psi(k_i) - mean psi(nxz_i + 1) - mean psi(nyz_i + 1)
\* + mean psi(nz_i + 1)) for blocks X, Y, Z.
CMIFormula(X, Y, Z) ==
    LET n   == Len(X)
        XYZ == Hstack(<< X, Y, Z >>)
        XZ  == Hstack(<< X, Z >>)
        YZ  == Hstack(<< Y, Z >>)
        Kf  == [i \in 1..n |-> DigammaL(EffectiveK(XYZ, i))]
        XZf == [i \in 1..n |-> DigammaL(Within(XZ, i, RadiusOf(XYZ, i)) + 1)]
        YZf == [i \in 1..n |-> DigammaL(Within(YZ, i, RadiusOf(XYZ, i)) + 1)]
        Zf  == [i \in 1..n |-> DigammaL(Within(Z, i, RadiusOf(XYZ, i)) + 1)]
    IN  SeqSum(Kf) - SeqSum(XZf) - SeqSum(YZf) + SeqSum(Zf)

\* Some effective neighbour count of the joint space m is 0, where psi is
\* not defined.
SomeKZero(m) == \E i \in 1..Len(m) : EffectiveK(m, i) <= 0

\* max(0, v) of a finite v.
ClampedAtZero(v) == Value(IF v < 0 THEN 0 ELSE v)

\* The estimate is not negative.
NonNegative(r) == r.inf \/ r.num >= 0

--------------------------------------------------------------------------
(* The properties *)

\* C1: for every valid input the call returns a value >= 0 and never an
\* error; a negative raw estimate is returned as exactly 0.
C1_NonNegative ==
    ValidInput =>
        /\ pc # "raised"
        /\ pc = "returned" => NonNegative(result)
        /\ (pc = "returned" /\ fn = "mi" /\ ~KPole(k)
              /\ mi_raw(n_samples, k, nx, ny) < 0) => result = Value(0)
        /\ (pc = "returned" /\ fn = "cmi" /\ ~KPole(k)
              /\ cmi_raw(k, nx, ny, nz) < 0) => result = Value(0)

\* C1 for the rank-1 inputs alone.
Rank1_NonNegative == Rank1Input => C1_NonNegative

\* A rank-1 call has returned 0 for a negative raw estimate.
Rank1_NonNegativeReached ==
    /\ ValidInput
    /\ pc = "returned"
    /\ ~KPole(k)
    /\ fn = "mi"
    /\ mi_raw(n_samples, k, nx, ny) < 0
    /\ result = Value(0)

\* C2: ensure_2d turns a rank-1 array of length n into an n x 1 matrix,
\* returns a rank-2 array unchanged without error, and fails with the
\* invalid-shape error for any other rank.
C2_Ensure2dRanks ==
    /\ RanksOk => err # "InvalidShape"
    /\ (RanksOk /\ pc = "add_noise") =>
          \A b \in 1..Len(Blocks) :
              << x2, y2, z2 >>[b] = Rows(Blocks[b])
    /\ (~RanksOk /\ Ndim(x) # 0 /\ pc # "ensure_2d") => err = "InvalidShape"

\* C2 with rank 2 left out: rank 1 becomes n x 1, ranks other than 1 and 2
\* fail.
Rank1_Ensure2d ==
    (\A b \in 1..Len(Blocks) : Ndim(Blocks[b]) # 2) => C2_Ensure2dRanks

\* C3: for every valid input with noise unset, compute_mi returns
\* max(0, psi(n) + mean psi(k_i) - mean psi(nx_i + 1) - mean psi(ny_i + 1)).
C3_MIFormula ==
    (fn = "mi" /\ ValidInput /\ noise_type = None /\ Finished) =>
        /\ pc = "returned"
        /\ SomeKZero(Hstack(<< Rows(x), Rows(y) >>))
           \/ result = ClampedAtZero(MIFormula(Rows(x), Rows(y)))

\* C3 for the rank-1 inputs alone.
Rank1_MIFormula == Rank1Input => C3_MIFormula

\* C4: for every valid input with noise unset, compute_cmi returns
\* max(0, mean psi(k_i) - mean psi(nxz_i + 1) - mean psi(nyz_i + 1)
\* + mean psi(nz_i + 1)), with no psi(n) term.
C4_CMIFormula ==
    (fn = "cmi" /\ ValidInput /\ noise_type = None /\ Finished) =>
        /\ pc = "returned"
        /\ SomeKZero(Hstack(<< Rows(x), Rows(y), Rows(z) >>))
           \/ result = ClampedAtZero(CMIFormula(Rows(x), Rows(y), Rows(z)))

\* C4 for the rank-1 inputs alone.
Rank1_CMIFormula == Rank1Input => C4_CMIFormula

\* C5: every noise kind other than unset, 'uniform' and 'normal' makes the
\* call fail with the invalid-noise-kind error; no estimate is returned.
C5_InvalidNoiseFails ==
    ~NoiseOk =>
        /\ pc # "returned"
        /\ (pc = "raised" /\ Rank1Input /\ SameCounts
              /\ n_neighbors < Blocks[1].shape[1]) => err = "InvalidNoise"

\* C5 for the truthy noise kinds alone.
Truthy_InvalidNoiseFails == Truthy(noise_type) => C5_InvalidNoiseFails

\* A column of equal values: a rank-1 array or an n x 1 matrix.
ConstantColumn(a) ==
    /\ Ndim(a) \in {1, 2}
    /\ Ndim(a) = 2 => a.shape[2] = 1
    /\ \A i, j \in 1..Len(a.data) : a.data[i] = a.data[j]

\* C6: with noise unset and Z a constant column of n samples,
\* compute_cmi(X, Y, Z, k) agrees with compute_mi(X, Y, k): the same radii
\* and k_i, nxz_i = nx_i, nyz_i = ny_i, nz_i = n - 1, the same estimate.
C6_ConstantZ ==
    ( /\ fn = "cmi"
      /\ noise_type = None
      /\ \A b \in 1..3 : Ndim(Blocks[b]) >= 1
      /\ SameCounts
      /\ ConstantColumn(z)
      /\ 1 <= n_neighbors
      /\ n_neighbors < x.shape[1]
      /\ Finished ) =>
        /\ [err |-> err, result |-> result]
              \in compute_mi_outcomes(x, y, n_neighbors)
        /\ pc = "returned" =>
              LET xy == Hstack(<< x2, y2 >>)
              IN  /\ radius = get_radius_kneighbors(xy, n_neighbors)
                  /\ k = tie_break(xy, radius,
                                   [i \in 1..n_samples |-> n_neighbors])
                  /\ nx = num_points_within_radius(x2, radius)
                  /\ ny = num_points_within_radius(y2, radius)
                  /\ \A i \in 1..n_samples : nz[i] = n_samples - 1

\* C6 for the rank-1 inputs alone.
Rank1_ConstantZ == Rank1Input => C6_ConstantZ

\* A call of compute_cmi on rank-1 blocks with a constant z has returned a
\* positive estimate.
Rank1_ConstantZReached ==
    /\ fn = "cmi"
    /\ noise_type = None
    /\ Rank1Input
    /\ ConstantColumn(z)
    /\ pc = "returned"
    /\ result.num > 0

\* C7: after the tie-breaking step, with noise unset every sample of
\* radius 0 has k_i = (number of samples of the whole data set whose joint
\* row equals its own) - 1 and every sample of radius > 0 has
\* k_i = n_neighbors; with a noise kind set, k_i = n_neighbors for every
\* sample, also where the radius is 0.
C7_TieBreak ==
    pc \in {"counts", "estimate", "returned"} =>
        \A i \in 1..n_samples :
            IF noise_type = None
            THEN /\ radius[i] = 0 => k[i] = Multiplicity(joint, i) - 1
                 /\ radius[i] > 0 => k[i] = n_neighbors
            ELSE k[i] = n_neighbors

\* The tie-breaking step has changed the k of a sample of radius 0.
C7_TieBreakReached ==
    /\ pc = "counts"
    /\ noise_type = None
    /\ \E i \in 1..n_samples : radius[i] = 0 /\ k[i] # n_neighbors

\* With a noise kind set, a sample of radius 0 keeps k_i = n_neighbors.
C7_NoiseZeroRadiusReached ==
    /\ pc = "counts"
    /\ noise_type = "uniform"
    /\ \E i \in 1..n_samples : radius[i] = 0 /\ k[i] = n_neighbors

C9_DigammaPositive ==
    pc = "estimate" =>
        /\ n_samples > 0
        /\ \A i \in 1..n_samples :
              /\ k[i] > 0
              /\ nx[i] + 1 > 0
              /\ ny[i] + 1 > 0
              /\ fn = "cmi" => nz[i] + 1 > 0
              /\ (noise_type = None /\ radius[i] = 0) => k[i] >= n_neighbors

\* C9 where every radius 0 comes from a distance 0 (not from the smallest
\* positive distance).
Dup_DigammaPositive ==
    (pc = "estimate" /\
     \A i \in 1..n_samples :
        radius[i] = 0 => KthNeighbourDist(joint, i, n_neighbors) = 0)
    => C9_DigammaPositive

\* The input fails validation.
InvalidInput ==
    \/ ~RanksOk
    \/ ~NoiseOk
    \/ ~SameCounts
    \/ n_neighbors >= Blocks[1].shape[1]

\* C10: every input-validation failure aborts the call with an error and
\* no estimate, and is detected before any KDTree is constructed.
C10_ValidationFirst ==
    /\ InvalidInput => pc # "returned"
    /\ pc = "raised" => kdtrees = 0

\* What holds instead: only a call that raised for n_neighbors >= n_samples
\* has constructed a KDTree (one), and an invalid input with a truthy noise
\* kind returns nothing.
Truthy_ValidationFirst ==
    /\ (InvalidInput /\ (noise_type = None \/ Truthy(noise_type)))
          => pc # "returned"
    /\ (pc = "raised" /\ err # "InsufficientSamples") => kdtrees = 0
    /\ (pc = "raised" /\ err = "InsufficientSamples") => kdtrees = 1

==========================================================================
